---- MODULE Spec2Model ----
(***************************************************************************)
(* Forward pass of the from-scratch multi-layer tanh RNN of                *)
(* RNN_from_scratch.ipynb (class RNN and the notebook cells driving it).   *)
(*                                                                         *)
(* Tensors are nested sequences (first axis outermost).  Numbers are       *)
(* fixed-point: inputs, hidden values and biases count quarters, weights   *)
(* are whole numbers, and tanh is the rounded table of 4*tanh(z/4).        *)
(***************************************************************************)
EXTENDS Integers, Sequences, FiniteSets, TLC

\* ------------------------------------------------------------- bounds ---
MaxHidden == 2      \* hidden_size drawn from 1..MaxHidden
MaxLayers == 2      \* num_layers  drawn from 1..MaxLayers
MaxBatch  == 2      \* batch sizes and values of the global N: 1..MaxBatch
MaxL      == 2      \* sequence lengths 0..MaxL

\* --------------------------------------------------- tensor primitives ---
None      == <<>>            \* Python None for the optional h_0
Undefined == 0               \* the global N before its cell has run

Min(a, b) == IF a < b THEN a ELSE b

\* pseudo-random entries: weights and biases (torch.rand scaled into [-k, k])
rand(seed, k) == ((seed + k * k) % 3) - 1
\* entries of caller-supplied tensors, in quarters
entry(seed, k) == ((seed + 3 * k) % 9) - 4

\* torch.rand(a, b) and torch.rand(a, b, c) as handed in by a caller
rand2(a, b, seed) == [i \in 1..a |-> [j \in 1..b |-> entry(seed, (i - 1) * b + j)]]
rand3(a, b, c, seed) ==
    [i \in 1..a |-> [j \in 1..b |-> [k \in 1..c |->
        entry(seed, ((i - 1) * b + (j - 1)) * c + k)]]]

\* torch.zeros(a, b, c)
zeros(a, b, c) == [i \in 1..a |-> [j \in 1..b |-> [k \in 1..c |-> 0]]]

\* shape and element count of a 3-d tensor whose axes are all non-empty
shape3(t) == <<Len(t), Len(t[1]), Len(t[1][1])>>
numel(t) == Len(t) * Len(t[1]) * Len(t[1][1])

\* element k (1-based, row-major) of a 3-d tensor
flat(t, k) ==
    LET b == Len(t[1])
        c == Len(t[1][1])
    IN  t[((k - 1) \div (b * c)) + 1][(((k - 1) \div c) % b) + 1][((k - 1) % c) + 1]

\* Tensor.reshape(a, b, c): the same elements in row-major order, regrouped
reshape(t, a, b, c) ==
    [i \in 1..a |-> [j \in 1..b |-> [k \in 1..c |->
        flat(t, ((i - 1) * b + (j - 1)) * c + k)]]]

\* torch.einsum('ijk->jik', t)
einsum_ijk_jik(t) == [j \in 1..Len(t[1]) |-> [i \in 1..Len(t) |-> t[i][j]]]

\* torch.tanh in quarters: round(4 * tanh(z / 4))
tanh(z) ==
    LET a == IF z < 0 THEN -z ELSE z
        r == IF a <= 3 THEN a ELSE IF a <= 5 THEN 3 ELSE 4
    IN  IF z < 0 THEN -r ELSE r

RECURSIVE dot(_, _, _)
dot(row, v, j) == IF j = 0 THEN 0 ELSE dot(row, v, j - 1) + row[j] * v[j]

\* torch.einsum('ij,j', w, v)
einsum_ij_j(w, v) == [i \in 1..Len(w) |-> dot(w[i], v, Len(v))]

\* RNN.tanh_cell
tanh_cell(x, h, w_ih, w_hh, b_ih, b_hh) ==
    LET a == einsum_ij_j(w_ih, x)
        b == einsum_ij_j(w_hh, h)
    IN  [i \in 1..Len(b_ih) |-> tanh(a[i] + b[i] + b_ih[i] + b_hh[i])]

\* ------------------------------------------------------ named parameters ---
Kinds == <<"weight_ih_l", "weight_hh_l", "bias_ih_l", "bias_hh_l">>
KindSet == {Kinds[i] : i \in 1..4}
KindIndex(kind) == CHOOSE i \in 1..4 : Kinds[i] = kind

\* a parameter tensor of the shape __init__ gives to (kind, layer)
param_tensor(kind, layer, isz, hsz, seed) ==
    LET layer_input_size == IF layer = 0 THEN isz ELSE hsz
        s == seed + 4 * layer + KindIndex(kind)
        cols == IF kind = "weight_ih_l" THEN layer_input_size ELSE hsz
    IN  IF kind \in {"weight_ih_l", "weight_hh_l"}
        THEN [i \in 1..hsz |-> [j \in 1..cols |-> rand(s, (i - 1) * cols + j)]]
        ELSE [i \in 1..hsz |-> rand(s, i)]

h_in      == 2      \* dimension of input vectors x_i
InitSeed  == 0      \* draw of torch.rand in RNN._init_weight_
TorchSeed == 1      \* draw of the parameters of nn.RNN
XSeed     == 2      \* draw of x = torch.rand(...)
HSeed     == 5      \* draw of h_0 = torch.rand(...)

VARIABLES
    input_size, hidden_size, num_layers,   \* fields of the RNN object
    data,                                  \* parameter object -> its .data
    attrs,                                 \* <<kind, layer>> -> parameter object (setattr)
    ws_ih, ws_hh, bs_ih, bs_hh,            \* per-layer lists of parameter objects
    rnn_torch,                             \* <<kind, layer>> -> .data of nn.RNN's parameter
    copied,                                \* names whose .data was overwritten from rnn_torch
    N,                                     \* the notebook's global batch size
    pc,                                    \* position of the running call
    args,                                  \* callee and the caller's tensors x, h_0
    cf,                                    \* locals of __call__
    lf,                                    \* locals of layers_forward
    sf,                                    \* locals of cum_map
    outcome                                \* what the call returned or raised

store == <<input_size, hidden_size, num_layers, data, attrs, ws_ih, ws_hh, bs_ih, bs_hh>>
vars == <<input_size, hidden_size, num_layers, data, attrs, ws_ih, ws_hh, bs_ih, bs_hh,
          rnn_torch, copied, N, pc, args, cf, lf, sf, outcome>>

Names(nl) == {<<kind, layer>> : kind \in KindSet, layer \in 0..(nl - 1)}

NoArgs == [callee |-> "", x |-> <<>>, h_0 |-> None]
NoCf == [h_0 |-> <<>>, batch_hs |-> <<>>, batch_hn |-> <<>>, n |-> 0]
NoPartial == [w_ih |-> 0, w_hh |-> 0, b_ih |-> 0, b_hh |-> 0]
NoLf == [x |-> <<>>, h_inits |-> <<>>, i_layer |-> -1, hs_L |-> <<>>, f_partial |-> NoPartial]
NoSf == [xs |-> <<>>, h |-> <<>>, cum_results |-> <<>>, t |-> 0]
NoOutcome == [ok |-> FALSE, err |-> "", hs |-> <<>>, hn |-> <<>>]

Returned(hs, hn) == [ok |-> TRUE, err |-> "", hs |-> hs, hn |-> hn]
Raised(err) == [ok |-> FALSE, err |-> err, hs |-> <<>>, hn |-> <<>>]

Running == {"__call__", "call_loop", "layers_forward", "cum_map"}

\* object allocated by __init__ for (kind, layer): four per layer, in order
obj(kind, layer) == 4 * layer + KindIndex(kind)

\* RNN.__init__ (and the construction of rnn_torch, N still unassigned)
Init ==
    /\ input_size = h_in
    /\ hidden_size \in 1..MaxHidden
    /\ num_layers \in 1..MaxLayers
    /\ attrs = [nm \in Names(num_layers) |-> obj(nm[1], nm[2])]
    /\ data = [o \in 1..(4 * num_layers) |->
                 LET nm == CHOOSE m \in Names(num_layers) : obj(m[1], m[2]) = o
                 IN  param_tensor(nm[1], nm[2], input_size, hidden_size, InitSeed)]
    /\ ws_ih = [l \in 1..num_layers |-> obj("weight_ih_l", l - 1)]
    /\ ws_hh = [l \in 1..num_layers |-> obj("weight_hh_l", l - 1)]
    /\ bs_ih = [l \in 1..num_layers |-> obj("bias_ih_l", l - 1)]
    /\ bs_hh = [l \in 1..num_layers |-> obj("bias_hh_l", l - 1)]
    /\ rnn_torch = [nm \in Names(num_layers) |->
                      param_tensor(nm[1], nm[2], input_size, hidden_size, TorchSeed)]
    /\ copied = {}
    /\ N = Undefined
    /\ pc = "idle"
    /\ args = NoArgs
    /\ cf = NoCf
    /\ lf = NoLf
    /\ sf = NoSf
    /\ outcome = NoOutcome

\* ------------------------------------------------------- notebook cells ---
\* Cells run one after another: a call is made, and its result looked at, before
\* the next cell changes N or a parameter or makes another call.
\* N = 2  (any batch size the notebook author picks)
assign_N ==
    /\ pc = "idle"
    /\ \E v \in 1..MaxBatch : N' = v
    /\ N' # N
    /\ UNCHANGED <<store, rnn_torch, copied, pc, args, cf, lf, sf, outcome>>

\* params = ['bias_ih_l', 'bias_hh_l', 'weight_ih_l', 'weight_hh_l']
params == <<"bias_ih_l", "bias_hh_l", "weight_ih_l", "weight_hh_l">>

\* item i (from 0) of product(params, [str(i) for i in range(num_layers)])
copy_order(i) == <<params[(i \div num_layers) + 1], i % num_layers>>

\* copy_param gone wrong: setattr(rnn_me, name, param_torch) binds the name to a
\* new parameter object and leaves the per-layer lists on the old one
copy_param_rebind ==
    /\ pc = "idle"
    /\ Cardinality(copied) < 4 * num_layers
    /\ LET nm == copy_order(Cardinality(copied))
       IN /\ data' = Append(data, rnn_torch[nm])
          /\ attrs' = [attrs EXCEPT ![nm] = Len(data) + 1]
          /\ copied' = copied \cup {nm}
    /\ UNCHANGED <<input_size, hidden_size, num_layers, ws_ih, ws_hh, bs_ih, bs_hh,
                   rnn_torch, N, pc, args, cf, lf, sf, outcome>>

\* one iteration of the copy loop:
\* param_me = getattr(rnn_me, param+layer); param_me.data = param_torch.data
copy_param ==
    /\ pc = "idle"
    /\ Cardinality(copied) < 4 * num_layers
    /\ LET nm == copy_order(Cardinality(copied))
       IN /\ data' = [data EXCEPT ![attrs[nm]] = rnn_torch[nm]]
          /\ copied' = copied \cup {nm}
    /\ UNCHANGED <<input_size, hidden_size, num_layers, attrs, ws_ih, ws_hh, bs_ih, bs_hh,
                   rnn_torch, N, pc, args, cf, lf, sf, outcome>>

\* the cell that made a call ends; its result is not looked at again
next_cell ==
    /\ pc \in {"returned", "raised"}
    /\ pc' = "idle"
    /\ args' = NoArgs
    /\ outcome' = NoOutcome
    /\ UNCHANGED <<store, rnn_torch, copied, N, cf, lf, sf>>

\* ------------------------------------------------------------ the calls ---
raise(err) ==
    /\ pc' = "raised"
    /\ outcome' = Raised(err)
    /\ cf' = NoCf
    /\ lf' = NoLf
    /\ sf' = NoSf

\* tensors a caller passes as x: (B, L, input_size)
XArgs == {rand3(b, l, input_size, XSeed) : b \in 1..MaxBatch, l \in 0..MaxL}
\* tensors a caller passes as h_0: (B, num_layers, H), (num_layers, B, H),
\* mismatched batches and layer counts, and the last two axes swapped
H0Args ==
    {rand3(a, b, hidden_size, HSeed) : a \in 1..MaxBatch, b \in 1..MaxLayers}
        \cup {rand3(a, hidden_size, b, HSeed) : a \in 1..MaxBatch, b \in 1..MaxLayers}

\* rnn_me(x) / rnn_me(x, h_0): the caller binds the arguments
call ==
    /\ pc = "idle"
    /\ \E xv \in XArgs, hv \in H0Args \cup {None} :
          args' = [callee |-> "__call__", x |-> xv, h_0 |-> hv]
    /\ pc' = "__call__"
    /\ outcome' = NoOutcome
    /\ cf' = NoCf /\ lf' = NoLf /\ sf' = NoSf
    /\ UNCHANGED <<store, rnn_torch, copied, N>>

\* __call__: default and reshape of h_0, empty result lists
call_reshape ==
    /\ pc = "__call__"
    /\ IF N = Undefined
       THEN raise("NameError")
       ELSE LET h_0 == IF args.h_0 = None
                       THEN zeros(num_layers, N, hidden_size)
                       ELSE args.h_0
            IN  IF numel(h_0) # N * num_layers * hidden_size
                THEN raise("RuntimeError")
                ELSE /\ cf' = [h_0 |-> reshape(h_0, N, num_layers, hidden_size),
                               batch_hs |-> <<>>, batch_hn |-> <<>>, n |-> 0]
                     /\ pc' = "call_loop"
                     /\ UNCHANGED <<lf, sf, outcome>>
    /\ UNCHANGED <<store, rnn_torch, copied, N, args>>

\* for x_batch, h_0_batch in zip(x, h_0): batch_forward(x_batch, h_0_batch)
call_loop ==
    /\ pc = "call_loop"
    /\ cf.n < Min(Len(args.x), Len(cf.h_0))
    /\ cf' = [cf EXCEPT !.n = cf.n + 1]
    /\ lf' = [x |-> args.x[cf.n + 1], h_inits |-> cf.h_0[cf.n + 1],
              i_layer |-> -1, hs_L |-> <<>>, f_partial |-> NoPartial]
    /\ pc' = "layers_forward"
    /\ UNCHANGED <<store, rnn_torch, copied, N, args, sf, outcome>>

\* return torch.stack(batch_hs), einsum('ijk->jik', torch.stack(batch_hn))
call_return ==
    /\ pc = "call_loop"
    /\ cf.n >= Min(Len(args.x), Len(cf.h_0))
    /\ IF cf.batch_hs = <<>>
       THEN raise("RuntimeError")
       ELSE /\ outcome' = Returned(cf.batch_hs, einsum_ijk_jik(cf.batch_hn))
            /\ pc' = "returned"
            /\ cf' = NoCf /\ lf' = NoLf /\ sf' = NoSf
    /\ UNCHANGED <<store, rnn_torch, copied, N, args>>

\* sequences and initial vectors a caller passes to layers_forward directly
SeqArgs == {rand2(l, input_size, XSeed) : l \in 0..MaxL}
HInitArgs == {rand2(m, hidden_size, HSeed) : m \in 0..(MaxLayers + 1)}

\* rnn_me.batch_forward(x, h_inits) -> layers_forward(tanh_cell, x, h_inits)
batch_forward ==
    /\ pc = "idle"
    /\ \E xv \in SeqArgs, hv \in HInitArgs :
          /\ args' = [callee |-> "layers_forward", x |-> xv, h_0 |-> hv]
          /\ lf' = [x |-> xv, h_inits |-> hv, i_layer |-> -1, hs_L |-> <<>>,
                    f_partial |-> NoPartial]
    /\ pc' = "layers_forward"
    /\ outcome' = NoOutcome
    /\ cf' = NoCf /\ sf' = NoSf
    /\ UNCHANGED <<store, rnn_torch, copied, N>>

\* layers_loop gone wrong: every layer is bound to the parameters of layer 0
layers_loop_layer0 ==
    /\ pc = "layers_forward"
    /\ lf.i_layer + 1 < Len(lf.h_inits)
    /\ LET i_layer == lf.i_layer + 1
       IN  IF i_layer >= Len(ws_ih)
           THEN raise("IndexError")
           ELSE /\ lf' = [lf EXCEPT !.i_layer = i_layer,
                                    !.f_partial = [w_ih |-> ws_ih[1], w_hh |-> ws_hh[1],
                                                   b_ih |-> bs_ih[1], b_hh |-> bs_hh[1]]]
                /\ sf' = [xs |-> lf.x, h |-> lf.h_inits[i_layer + 1],
                          cum_results |-> <<>>, t |-> 0]
                /\ pc' = "cum_map"
                /\ UNCHANGED <<cf, outcome>>
    /\ UNCHANGED <<store, rnn_torch, copied, N, args>>

\* for i_layer, h_0 in enumerate(h_inits): bind the layer's parameters, start cum_map
layers_loop ==
    /\ pc = "layers_forward"
    /\ lf.i_layer + 1 < Len(lf.h_inits)
    /\ LET i_layer == lf.i_layer + 1
       IN  IF i_layer >= Len(ws_ih)
           THEN raise("IndexError")
           ELSE /\ lf' = [lf EXCEPT !.i_layer = i_layer,
                                    !.f_partial = [w_ih |-> ws_ih[i_layer + 1],
                                                   w_hh |-> ws_hh[i_layer + 1],
                                                   b_ih |-> bs_ih[i_layer + 1],
                                                   b_hh |-> bs_hh[i_layer + 1]]]
                /\ sf' = [xs |-> lf.x, h |-> lf.h_inits[i_layer + 1],
                          cum_results |-> <<>>, t |-> 0]
                /\ pc' = "cum_map"
                /\ UNCHANGED <<cf, outcome>>
    /\ UNCHANGED <<store, rnn_torch, copied, N, args>>

\* return x, torch.stack(hs_L); in __call__: batch_hs.append(hs); batch_hn.append(hn)
layers_return ==
    /\ pc = "layers_forward"
    /\ lf.i_layer + 1 >= Len(lf.h_inits)
    /\ IF lf.hs_L = <<>>
       THEN raise("RuntimeError")
       ELSE IF args.callee = "__call__"
            THEN /\ cf' = [cf EXCEPT !.batch_hs = Append(cf.batch_hs, lf.x),
                                     !.batch_hn = Append(cf.batch_hn, lf.hs_L)]
                 /\ pc' = "call_loop"
                 /\ lf' = NoLf /\ sf' = NoSf
                 /\ UNCHANGED outcome
            ELSE /\ outcome' = Returned(lf.x, lf.hs_L)
                 /\ pc' = "returned"
                 /\ cf' = NoCf /\ lf' = NoLf /\ sf' = NoSf
    /\ UNCHANGED <<store, rnn_torch, copied, N, args>>

\* cum_map_step gone wrong: every step starts from the initial h instead of
\* carrying the h of the step before
cum_map_step_nocarry ==
    /\ pc = "cum_map"
    /\ sf.t < Len(sf.xs)
    /\ LET f == lf.f_partial
           h == tanh_cell(sf.xs[sf.t + 1], lf.h_inits[lf.i_layer + 1],
                          data[f.w_ih], data[f.w_hh], data[f.b_ih], data[f.b_hh])
       IN  sf' = [sf EXCEPT !.h = h, !.cum_results = Append(sf.cum_results, h),
                            !.t = sf.t + 1]
    /\ UNCHANGED <<store, rnn_torch, copied, N, pc, args, cf, lf, outcome>>

\* cum_map_step gone wrong: the cell accumulates in place into the bias b_hh
cum_map_step_inplace ==
    /\ pc = "cum_map"
    /\ sf.t < Len(sf.xs)
    /\ LET f == lf.f_partial
           h == tanh_cell(sf.xs[sf.t + 1], sf.h,
                          data[f.w_ih], data[f.w_hh], data[f.b_ih], data[f.b_hh])
       IN  /\ sf' = [sf EXCEPT !.h = h, !.cum_results = Append(sf.cum_results, h),
                               !.t = sf.t + 1]
           /\ data' = [data EXCEPT ![f.b_hh] = h]
    /\ UNCHANGED <<input_size, hidden_size, num_layers, attrs, ws_ih, ws_hh, bs_ih, bs_hh,
                   rnn_torch, copied, N, pc, args, cf, lf, outcome>>

\* for x in xs: h = f(x, h); cum_results.append(h)
cum_map_step ==
    /\ pc = "cum_map"
    /\ sf.t < Len(sf.xs)
    /\ LET f == lf.f_partial
           h == tanh_cell(sf.xs[sf.t + 1], sf.h,
                          data[f.w_ih], data[f.w_hh], data[f.b_ih], data[f.b_hh])
       IN  sf' = [sf EXCEPT !.h = h, !.cum_results = Append(sf.cum_results, h),
                            !.t = sf.t + 1]
    /\ UNCHANGED <<store, rnn_torch, copied, N, pc, args, cf, lf, outcome>>

\* return torch.stack(cum_results), h; in layers_forward: x, h_L = ...; hs_L.append(h_L)
cum_map_return ==
    /\ pc = "cum_map"
    /\ sf.t >= Len(sf.xs)
    /\ IF sf.cum_results = <<>>
       THEN raise("RuntimeError")
       ELSE /\ lf' = [lf EXCEPT !.x = sf.cum_results, !.hs_L = Append(lf.hs_L, sf.h)]
            /\ sf' = NoSf
            /\ pc' = "layers_forward"
            /\ UNCHANGED <<cf, outcome>>
    /\ UNCHANGED <<store, rnn_torch, copied, N, args>>

Next ==
    \/ assign_N
    \/ copy_param
    \/ next_cell
    \/ call
    \/ call_reshape
    \/ call_loop
    \/ call_return
    \/ batch_forward
    \/ layers_loop
    \/ layers_return
    \/ cum_map_step
    \/ cum_map_return

Spec == Init /\ [][Next]_vars

\* ----------------------------------------- the same code as functions ---
\* f_partial = partial(f, w_ih=..., w_hh=..., b_ih=..., b_hh=...) applied to (x, h)
f_partial_apply(f, x, h) ==
    tanh_cell(x, h, data[f.w_ih], data[f.w_hh], data[f.b_ih], data[f.b_hh])

\* cum_map after the first t iterations of its loop
RECURSIVE cum_map_iter(_, _, _, _)
cum_map_iter(f, xs, h, t) ==
    IF t = 0
    THEN [cum_results |-> <<>>, h |-> h]
    ELSE LET p == cum_map_iter(f, xs, h, t - 1)
             hn == f_partial_apply(f, xs[t], p.h)
         IN  [cum_results |-> Append(p.cum_results, hn), h |-> hn]

\* RNN.cum_map: (torch.stack(cum_results), h), the pair held in hs, hn
cum_map(f, xs, h) ==
    LET r == cum_map_iter(f, xs, h, Len(xs))
    IN  IF r.cum_results = <<>> THEN Raised("RuntimeError")
        ELSE Returned(r.cum_results, r.h)

\* layers_forward after the first k iterations of its loop
RECURSIVE layers_forward_iter(_, _, _)
layers_forward_iter(x, h_inits, k) ==
    IF k = 0
    THEN [ok |-> TRUE, err |-> "", x |-> x, hs_L |-> <<>>]
    ELSE LET p == layers_forward_iter(x, h_inits, k - 1)
         IN  IF ~p.ok THEN p
             ELSE IF k - 1 >= Len(ws_ih)
             THEN [ok |-> FALSE, err |-> "IndexError", x |-> <<>>, hs_L |-> <<>>]
             ELSE LET f == [w_ih |-> ws_ih[k], w_hh |-> ws_hh[k],
                            b_ih |-> bs_ih[k], b_hh |-> bs_hh[k]]
                      r == cum_map(f, p.x, h_inits[k])
                  IN  IF ~r.ok
                      THEN [ok |-> FALSE, err |-> r.err, x |-> <<>>, hs_L |-> <<>>]
                      ELSE [ok |-> TRUE, err |-> "", x |-> r.hs,
                            hs_L |-> Append(p.hs_L, r.hn)]

\* RNN.layers_forward(tanh_cell, x, h_inits)
layers_forward(x, h_inits) ==
    LET p == layers_forward_iter(x, h_inits, Len(h_inits))
    IN  IF ~p.ok THEN Raised(p.err)
        ELSE IF p.hs_L = <<>> THEN Raised("RuntimeError")
        ELSE Returned(p.x, p.hs_L)

\* RNN.__call__(x, h_0) run while the global N has the value n
forward_N(x, h_0, n) ==
    IF n = Undefined THEN Raised("NameError")
    ELSE LET h == IF h_0 = None THEN zeros(num_layers, n, hidden_size) ELSE h_0
         IN  IF numel(h) # n * num_layers * hidden_size THEN Raised("RuntimeError")
             ELSE LET hr == reshape(h, n, num_layers, hidden_size)
                      m == Min(Len(x), Len(hr))
                      rs == [i \in 1..m |-> layers_forward(x[i], hr[i])]
                  IN  IF \E i \in 1..m : ~rs[i].ok
                      THEN Raised(rs[CHOOSE i \in 1..m :
                                       ~rs[i].ok /\ \A j \in 1..(i - 1) : rs[j].ok].err)
                      ELSE IF m = 0 THEN Raised("RuntimeError")
                      ELSE Returned([i \in 1..m |-> rs[i].hs],
                                    einsum_ijk_jik([i \in 1..m |-> rs[i].hn]))

\* RNN.__call__(x, h_0) in the current state
forward(x, h_0) == forward_N(x, h_0, N)

\* the stepwise call and the function agree on every finished call
Consistent ==
    pc \in {"returned", "raised"} =>
        outcome = IF args.callee = "__call__"
                  THEN forward(args.x, args.h_0)
                  ELSE layers_forward(args.x, args.h_0)

\* ============================================================== claims ===
Finished == pc \in {"returned", "raised"}
IsCall == args.callee = "__call__"

\* get(layer): the parameter values read by name
named(kind, layer) == data[attrs[<<kind, layer>>]]

\* the layered recurrence: hidden vector of layer l (0-based) at step t for one
\* sequence x and per-layer initial vectors hin
\* (a value is bound through a one-element set so that it is computed once)
RECURSIVE ref_scan(_, _, _, _)
ref_scan(l, xs, h0, t) ==
    IF t = 0 THEN <<>>
    ELSE CHOOSE r \in {Append(p, tanh_cell(xs[t], IF t = 1 THEN h0 ELSE p[t - 1],
                                           named("weight_ih_l", l), named("weight_hh_l", l),
                                           named("bias_ih_l", l), named("bias_hh_l", l))) :
                           p \in {ref_scan(l, xs, h0, t - 1)}} : TRUE

\* the complete output sequence of layer l
RECURSIVE ref_layer(_, _, _)
ref_layer(l, x, hin) ==
    CHOOSE r \in {ref_scan(l, xs, hin[l + 1], Len(xs)) :
                     xs \in {IF l = 0 THEN x ELSE ref_layer(l - 1, x, hin)}} : TRUE

ref_h(l, x, hin, t) == IF t = 0 THEN hin[l + 1] ELSE ref_layer(l, x, hin)[t]

HiddenSequence(X, H0) ==
    [n \in 1..Len(X) |-> ref_layer(num_layers - 1, X[n], H0[n])]
FinalHiddenStack(X, H0) ==
    [l \in 1..num_layers |-> [n \in 1..Len(X) |-> ref_h(l - 1, X[n], H0[n], Len(X[n]))]]

\* H0 has the documented shape (X.shape[0], num_layers, H_out)
ValidH0 == args.h_0 # None /\ shape3(args.h_0) = <<Len(args.x), num_layers, hidden_size>>

\* the sequence and initial vectors handed to the running layers_forward
ext_x == IF IsCall THEN args.x[cf.n] ELSE args.x
ext_h == IF IsCall THEN cf.h_0[cf.n] ELSE args.h_0

\* C1: every forward(X, H0) with X of shape (B, L, H_in), L >= 1, and H0 of shape
\* (B, num_layers, H_out) returns the HiddenSequence of the last layer and the
\* FinalHiddenStack (per layer, per batch element) of the layered recurrence.
C1_ForwardResult ==
    (Finished /\ IsCall /\ ValidH0 /\ N # Undefined /\ Len(args.x[1]) >= 1) =>
        outcome = Returned(HiddenSequence(args.x, args.h_0),
                           FinalHiddenStack(args.x, args.h_0))

ScanOK ==
    pc = "cum_map" =>
        LET h0 == lf.h_inits[lf.i_layer + 1]
            r == sf.cum_results
        IN  /\ Len(r) = sf.t
            /\ sf.t <= Len(sf.xs)
            /\ \A t \in 1..Len(r) :
                  r[t] = f_partial_apply(lf.f_partial, sf.xs[t],
                                         IF t = 1 THEN h0 ELSE r[t - 1])
            /\ sf.h = IF Len(r) = 0 THEN h0 ELSE r[Len(r)]

\* C2: cum_map is a strict left fold: the outputs are h_t = f(x_t, h_{t-1}) in
\* input order, each step appends exactly the next index after the previous one
\* has produced its h, and it returns all L outputs with h_L as the final state.
C2_LeftFold ==
    /\ []ScanOK
    /\ [][/\ (pc = "cum_map" /\ pc' = "cum_map") =>
             /\ sf'.xs = sf.xs
             /\ sf'.t = sf.t + 1
             /\ SubSeq(sf'.cum_results, 1, sf.t) = sf.cum_results
       /\ (pc = "cum_map" /\ pc' = "layers_forward") =>
             /\ Len(sf.cum_results) = Len(sf.xs)
             /\ lf'.x = sf.cum_results
             /\ lf'.hs_L = Append(lf.hs_L, sf.cum_results[Len(sf.xs)])]_vars

C2_Witness == pc = "cum_map" /\ sf.t >= 2 /\ sf.cum_results[1] # sf.cum_results[2]

LayerOK ==
    pc = "cum_map" =>
        LET l == lf.i_layer
            L == Len(ext_x)
        IN  /\ l \in 0..(num_layers - 1)
            /\ lf.f_partial = [w_ih |-> attrs[<<"weight_ih_l", l>>],
                               w_hh |-> attrs[<<"weight_hh_l", l>>],
                               b_ih |-> attrs[<<"bias_ih_l", l>>],
                               b_hh |-> attrs[<<"bias_hh_l", l>>]]
            /\ lf.h_inits = ext_h
            /\ (sf.t = 0 => sf.h = ext_h[l + 1])
            /\ sf.xs = IF l = 0 THEN ext_x ELSE ref_layer(l - 1, ext_x, ext_h)
            /\ Len(sf.xs) = L
            /\ Len(lf.hs_L) = l
            /\ \A k \in 1..l : lf.hs_L[k] = ref_h(k - 1, ext_x, ext_h, L)

\* C3: layers_forward scans the layers in index order 0, 1, ...; the scan of
\* layer l uses layer l's own parameters and starts from h_inits[l]; layer l+1
\* reads the complete output sequence of layer l (layer 0 the external input),
\* and starts only after layer l has finished all L steps.
C3_LayerOrder ==
    /\ []LayerOK
    /\ [][(pc = "layers_forward" /\ pc' = "cum_map") =>
             /\ lf'.i_layer = lf.i_layer + 1
             /\ lf'.i_layer = Len(lf.hs_L)
             /\ sf'.xs = lf.x
             /\ (lf'.i_layer > 0 => Len(lf.x) = Len(ext_x))]_vars

C3_Witness == pc = "cum_map" /\ lf.i_layer = 1 /\ sf.t >= 1 /\ Len(ext_x) >= 2

\* C4: for L = 0 forward succeeds with an empty HiddenSequence and a
\* FinalHiddenStack equal to H0 with batch and layer axes transposed.
C4_EmptySequence ==
    (Finished /\ IsCall /\ ValidH0 /\ N = Len(args.x) /\ Len(args.x[1]) = 0) =>
        outcome = Returned([n \in 1..Len(args.x) |-> <<>>], einsum_ijk_jik(args.h_0))

\* C5: with H0 omitted forward(X) equals forward(X, Z), Z all zeros of shape
\* (X.shape[0], num_layers, H_out), whatever value the global N has.
C5_DefaultH0 ==
    (Finished /\ IsCall /\ args.h_0 = None /\ N # Undefined) =>
        /\ outcome = forward(args.x, zeros(Len(args.x), num_layers, hidden_size))
        /\ \A v \in 1..MaxBatch : forward_N(args.x, None, v) = outcome

\* C6: forward(X, H0) raises whenever X.shape[0] # H0.shape[0] or
\* H0.shape[1] # num_layers or H0.shape[2] # H_out.
C6_ShapeMismatch ==
    (Finished /\ IsCall /\ args.h_0 # None /\ ~ValidH0 /\ N # Undefined) => ~outcome.ok

\* C7: layers_forward raises whenever len(h_inits) # num_layers.
C7_LayerCountMismatch ==
    (Finished /\ ~IsCall /\ Len(args.h_0) # num_layers) => ~outcome.ok

\* C8: for X (B, L, H_in) and H0 (B, num_layers, H_out), each batch-of-one call
\* forward(X[n:n+1], H0[n:n+1]) succeeds and the results, concatenated along the
\* batch axis, equal the result of the one call on the whole batch.
C8_BatchIndependence ==
    (pc = "returned" /\ IsCall /\ ValidH0) =>
        \A n \in 1..Len(args.x) :
            LET r == forward(<<args.x[n]>>, <<args.h_0[n]>>)
            IN  /\ r.ok
                /\ r.hs = <<outcome.hs[n]>>
                /\ r.hn = [l \in 1..num_layers |-> <<outcome.hn[l][n]>>]

\* the value a named parameter must have: nn.RNN's once copied, else the initial one
expected(nm) ==
    IF nm \in copied THEN rnn_torch[nm]
    ELSE param_tensor(nm[1], nm[2], input_size, hidden_size, InitSeed)

\* the object the forward pass reads for a name
listed(nm) ==
    CASE nm[1] = "weight_ih_l" -> ws_ih[nm[2] + 1]
      [] nm[1] = "weight_hh_l" -> ws_hh[nm[2] + 1]
      [] nm[1] = "bias_ih_l"   -> bs_ih[nm[2] + 1]
      [] OTHER                 -> bs_hh[nm[2] + 1]

\* C9: after param.data of named parameters is overwritten, the parameter the
\* forward pass reads for a layer is the one read by name, it holds exactly the
\* injected values, every other parameter keeps its value, and each scan step of
\* layer l is computed with these values.
C9_WeightInjection ==
    /\ \A nm \in Names(num_layers) :
          listed(nm) = attrs[nm] /\ data[listed(nm)] = expected(nm)
    /\ pc = "cum_map" =>
          \A t \in 1..Len(sf.cum_results) :
              sf.cum_results[t] =
                  tanh_cell(sf.xs[t],
                            IF t = 1 THEN lf.h_inits[lf.i_layer + 1]
                            ELSE sf.cum_results[t - 1],
                            expected(<<"weight_ih_l", lf.i_layer>>),
                            expected(<<"weight_hh_l", lf.i_layer>>),
                            expected(<<"bias_ih_l", lf.i_layer>>),
                            expected(<<"bias_hh_l", lf.i_layer>>))

C9_Witness ==
    /\ pc = "cum_map" /\ sf.t >= 1
    /\ \E kind \in KindSet :
          /\ <<kind, lf.i_layer>> \in copied
          /\ rnn_torch[<<kind, lf.i_layer>>] #
                param_tensor(kind, lf.i_layer, input_size, hidden_size, InitSeed)

\* C10: no step of a forward pass, one that ends in an error included, changes
\* the parameters (values, shapes, number of layers) or the caller's x and h_0.
C10_ReadOnly ==
    [][(pc \in Running \/ pc' \in Running) =>
          /\ store' = store
          /\ (pc \in Running => args' = args)]_vars

C10_Witness == pc = "returned" /\ IsCall /\ num_layers >= 2 /\ Len(args.x) >= 2

====
